---- MODULE Spec2Model ----
(***************************************************************************)
(* State-machine model of gitlab_gui_pro_full.py: the GitLabGUIApp object, *)
(* its Treeview, its one-thread-per-action tasks, the GitLabClient HTTP    *)
(* wrapper and the mocked GitLab server the client talks to.               *)
(*                                                                         *)
(* Texts (group and project names, node texts) are sequences of character  *)
(* codes; a Treeview iid such as "group_3_dummy" is the tuple              *)
(* <<"group", 3, "dummy">>; Python None is NONE.                           *)
(***************************************************************************)
EXTENDS Integers, Sequences, FiniteSets, TLC

VARIABLES
    srvGroups,          \* server: the groups /groups returns, in server order
    srvProjects,        \* server: the projects, in server order
    client,             \* self.client
    user_info,          \* self.user_info
    token,              \* self.token
    all_groups,         \* self._all_groups
    last_parent_name,   \* self.last_parent_name
    last_subgroup_name, \* self.last_subgroup_name
    tree,               \* self.tree: [kids, item]
    sel,                \* self.tree.selection()
    focus,              \* self.tree.focus()
    buttons,            \* state of the three action buttons (TRUE = 'normal')
    current_project_id, \* self.current_project_id (NoId while the attribute is unset)
    tasks,              \* the background threads: slot -> frame of the running task()
    last,               \* what the most recent handler or task step did
    log_queue,          \* self.log_queue
    log_area,           \* the lines of self.log_area
    worker,             \* the log worker thread: the line it holds, or none
    logged,             \* every line passed to log(), in the order of the put()
    hp,                 \* frame of one GitLabClient call sequence (request accounting)
    disk,               \* the keyring, the token file and the cache file
    save_token_var      \* self.save_token_var, the 'Lưu Token' box

vars == <<srvGroups, srvProjects, client, user_info, token, all_groups,
          last_parent_name, last_subgroup_name, tree, sel, focus, buttons,
          current_project_id, tasks, last, log_queue, log_area, worker, logged, hp,
          disk, save_token_var>>

appVars == <<srvGroups, srvProjects, client, user_info, token, all_groups,
             last_parent_name, last_subgroup_name, tree, sel, focus, buttons,
             current_project_id, tasks, last>>

logVars == <<log_queue, log_area, worker, logged>>

-----------------------------------------------------------------------------
(* Bounds of the model *)

MaxInitGroups == 3      \* groups on the server at start: 0..MaxInitGroups
MaxInitProjects == 1    \* projects on the server at start: 0..MaxInitProjects
MaxGroups == 4          \* the server never holds more groups than this
MaxProjects == 2        \* the server never holds more projects than this

NONE == "None"          \* Python None, for the string-valued attributes
NoId == 0               \* None (or unset) for an id: ids are positive
NoName == <<>>          \* None for a name attribute; a name n is held as <<n>>
NoLine == <<>>          \* the worker holds no line; a line l is held as <<l>>
NoFile == <<>>          \* a file that does not exist, or no keyring entry; else <<content>>
ROOT == <<>>            \* the Treeview's root item '', also "no item"
Tasks == {"t1", "t2"}   \* thread slots for the one-shot task threads

-----------------------------------------------------------------------------
(* Texts *)

\* character codes: 'A' 65, 'B' 66, 'a' 97, 'b' 98, ' ' 32
NameA == <<65>>
NameB == <<66>>
Namea == <<97>>
SeqOfNames == <<NameB, Namea, NameA>>
Names == {SeqOfNames[i] : i \in 1..Len(SeqOfNames)}
EmptyText == <<>>
DummyText == <<40, 46, 46, 46, 41>>        \* '(mở để tải...)'
RepoText == <<82, 101, 112, 111>>          \* 'Repository'
ProjectPrefix == <<91, 80, 93, 32>>        \* '[P] '

\* str.lower() on one character
LowerChar(c) == IF c >= 65 /\ c <= 90 THEN c + 32 ELSE c

\* str.lower()
Lower(s) == [i \in 1..Len(s) |-> LowerChar(s[i])]

\* str.strip(): leading and trailing blanks removed
RECURSIVE LStrip(_)
LStrip(s) == IF s # <<>> /\ s[1] = 32 THEN LStrip(Tail(s)) ELSE s
RECURSIVE RStrip(_)
RStrip(s) == IF s # <<>> /\ s[Len(s)] = 32 THEN RStrip(SubSeq(s, 1, Len(s) - 1)) ELSE s
Strip(s) == RStrip(LStrip(s))

\* Python's < on str: lexicographic on the code points
RECURSIVE StrLess(_, _)
StrLess(a, b) ==
    IF b = <<>> THEN FALSE
    ELSE IF a = <<>> THEN TRUE
    ELSE IF a[1] # b[1] THEN a[1] < b[1]
    ELSE StrLess(Tail(a), Tail(b))

\* the sort key of populate_groups and the lazy loaders
NameKeyRaw(x) == x.name
NameKey(x) == Lower(x.name)

\* sorted(xs, key=...): stable; insertion of x after every element not greater
RECURSIVE InsertSorted(_, _)
InsertSorted(x, ys) ==
    IF ys = <<>> THEN <<x>>
    ELSE IF StrLess(NameKey(x), NameKey(ys[1])) THEN <<x>> \o ys
    ELSE <<ys[1]>> \o InsertSorted(x, Tail(ys))

RECURSIVE SortedByName(_)
SortedByName(xs) ==
    IF xs = <<>> THEN <<>>
    ELSE InsertSorted(xs[Len(xs)], SortedByName(SubSeq(xs, 1, Len(xs) - 1)))

Range(s) == {s[i] : i \in 1..Len(s)}

-----------------------------------------------------------------------------
(* The mocked GitLab server *)

Tokens == {"good", "bad"}
ValidTokens == {"good"}

\* the i-th group the server may hold at start: every third one is a subgroup
PoolGroup(i) ==
    [id |-> i,
     name |-> SeqOfNames[((i - 1) % Len(SeqOfNames)) + 1],
     parent_id |-> IF i % 3 = 0 THEN i - 2 ELSE NoId]

\* the i-th project the server may hold at start
PoolProject(i) ==
    [id |-> i,
     name |-> SeqOfNames[((i - 1) % Len(SeqOfNames)) + 1],
     namespace |-> IF i % 2 = 1 THEN 1 ELSE 3]

InitialGroups(n) == [i \in 1..n |-> PoolGroup(i)]
InitialProjects(n, m) ==
    SelectSeq([i \in 1..m |-> PoolProject(i)], LAMBDA p : p.namespace <= n)

\* GET /projects/:id/repository/tree as the mocked server answers it
RepositoryTree(project_id) ==
    IF project_id % 2 = 1
    THEN <<[name |-> <<102>>, type |-> "blob", path |-> <<102>>],
           [name |-> <<100>>, type |-> "tree", path |-> <<100>>]>>
    ELSE <<>>

NextId(xs) == IF xs = <<>> THEN 1 ELSE 1 + xs[Len(xs)].id

-----------------------------------------------------------------------------
(* ttk.Treeview *)

EmptyTree == [kids |-> (ROOT :> <<>>), item |-> <<>>]

Item(text, values) == [text |-> text, values |-> values]

TreeExists(tr, iid) == iid # ROOT /\ iid \in DOMAIN tr.kids

TreeChildren(tr, iid) == tr.kids[iid]

TreeValues(tr, iid) == tr.item[iid].values

\* str(c).endswith('_dummy'): the suffixes are the third and fourth components
IsDummy(iid) == Len(iid) >= 3 /\ iid[Len(iid)] = "dummy"

\* tree.insert(parent, 'end', iid=...) raises TclError unless this holds
CanInsert(tr, parent, iid) == parent \in DOMAIN tr.kids /\ iid \notin DOMAIN tr.kids

TreeInsert(tr, parent, iid, text, values) ==
    [kids |-> [n \in DOMAIN tr.kids \cup {iid} |->
                 IF n = iid THEN <<>>
                 ELSE IF n = parent THEN Append(tr.kids[n], iid)
                 ELSE tr.kids[n]],
     item |-> [n \in (DOMAIN tr.kids \cup {iid}) \ {ROOT} |->
                 IF n = iid THEN Item(text, values) ELSE tr.item[n]]]

RECURSIVE Descendants(_, _)
Descendants(tr, iid) ==
    {iid} \cup UNION {Descendants(tr, c) : c \in Range(tr.kids[iid])}

\* tree.delete(*items) raises TclError unless every item exists
CanDelete(tr, items) == \A i \in Range(items) : TreeExists(tr, i)

TreeDelete(tr, items) ==
    LET gone == UNION {Descendants(tr, i) : i \in Range(items)}
        keep == DOMAIN tr.kids \ gone
    IN  [kids |-> [n \in keep |-> SelectSeq(tr.kids[n], LAMBDA c : c \notin gone)],
         item |-> [n \in keep \ {ROOT} |-> tr.item[n]]]

\* the selection and the focus lose the items that no longer exist
Surviving(tr, iid) == IF iid \in DOMAIN tr.kids THEN iid ELSE ROOT

\* a run of tree.insert calls inside one try block: it stops at the first TclError
RECURSIVE InsertAll(_, _)
InsertAll(tr, ins) ==
    IF ins = <<>> THEN [tree |-> tr, ok |-> TRUE]
    ELSE IF ~CanInsert(tr, ins[1].parent, ins[1].iid) THEN [tree |-> tr, ok |-> FALSE]
    ELSE InsertAll(TreeInsert(tr, ins[1].parent, ins[1].iid, ins[1].text, ins[1].values),
                   Tail(ins))

Ins(parent, iid, text, values) ==
    [parent |-> parent, iid |-> iid, text |-> text, values |-> values]

GroupIid(id) == <<"group", id>>
SubgroupIid(id) == <<"subgroup", id>>
ProjectIid(id) == <<"project", id>>
DummyOf(iid) == Append(iid, "dummy")
RepoIid(id) == <<"project", id, "repo">>

-----------------------------------------------------------------------------
(* What a step did: the handler or task step, the thread it ran on, the item *)
(* it was about, the HTTP requests it sent and the answer to the last one    *)
(* ("-" when none was sent), whether it called a mutating Treeview method,   *)
(* and how an error was reported: "log+box" (log line and message box),      *)
(* "log", "box", "silent" (swallowed), "escaped" (not caught), "rejected"    *)
(* (input refused with a message box before anything was done), "none".      *)

Ev(op, thread, item, http, resp, mut, err) ==
    [op |-> op, thread |-> thread, item |-> item, http |-> http, resp |-> resp,
     mut |-> mut, err |-> err]

Idle == [pc |-> "idle", kind |-> "none", alone |-> TRUE]

\* the storage of a first start: nothing is saved.  keyring_available is the
\* module's KEYRING_AVAILABLE; `saved` remembers what save_cache was given.
EmptyDisk(keyring_available) ==
    [keyring_available |-> keyring_available, keyring |-> NoFile, token_file |-> NoFile,
     cache_file |-> NoFile, saved |-> NoFile]

Init ==
    /\ \E n \in 0..MaxInitGroups, m \in 0..MaxInitProjects :
          /\ srvGroups = InitialGroups(n)
          /\ srvProjects = InitialProjects(n, m)
    /\ client = NONE
    /\ user_info = NONE
    /\ token = NONE
    /\ all_groups = <<>>
    /\ last_parent_name = NoName
    /\ last_subgroup_name = NoName
    /\ tree = EmptyTree
    /\ sel = ROOT
    /\ focus = ROOT
    /\ buttons = FALSE
    /\ current_project_id = NoId
    /\ tasks = [t \in Tasks |-> Idle]
    /\ last = Ev("init", "main", ROOT, 0, "-", FALSE, "none")
    /\ log_queue = <<>>
    /\ log_area = <<>>
    /\ worker = NoLine
    /\ logged = <<>>
    /\ hp = Idle
    /\ disk = EmptyDisk(TRUE)
    /\ save_token_var = FALSE

-----------------------------------------------------------------------------
(* Threads.  threading.Thread(target=task).start() puts a frame in a free   *)
(* slot.  The field `alone` of a frame records that no other task and no     *)
(* Treeview-changing handler has run since the thread was started.           *)

Running(t) == tasks[t].pc # "idle"

Disturbed(t) ==
    [u \in Tasks |->
        IF u # t /\ tasks[u].pc # "idle" THEN [tasks[u] EXCEPT !.alone = FALSE]
        ELSE tasks[u]]

Started(t, frame) ==
    [Disturbed(t) EXCEPT
        ![t] = [frame EXCEPT !.alone = \A u \in Tasks \ {t} : tasks[u].pc = "idle"]]

Stepped(t, frame) == [tasks EXCEPT ![t] = frame]

\* the frame after the task's except clause: the target returns
Failed(t) == Idle

\* the frame at the next statement, or none when the target returns
Goto(f, pc) == IF pc = "done" THEN Idle ELSE [f EXCEPT !.pc = pc]

\* the thread of a completed populate task ends; its frame, with the groups it
\* fetched, is kept until then
TaskExit(t) ==
    /\ tasks[t].pc = "done"
    /\ tasks' = Stepped(t, Idle)
    /\ UNCHANGED <<srvGroups, srvProjects, client, user_info, token, all_groups,
                   last_parent_name, last_subgroup_name, tree, sel, focus, buttons,
                   current_project_id, last, logVars, hp, disk, save_token_var>>

-----------------------------------------------------------------------------
(* populate_groups *)

PopulateFrame ==
    [kind |-> "populate", pc |-> "fetch", alone |-> TRUE,
     groups |-> <<>>, children |-> <<>>, todo |-> <<>>]

IsRoot(g) == g.parent_id = NoId

\* roots = [g for g in groups if not g.get('parent_id')], sorted by lower-cased name
SortedRoots(groups) == SortedByName(SelectSeq(groups, IsRoot))


\* a populate_groups that returns without starting its thread
PopulateGroupsNoThread(thread, t) ==
    /\ tasks' = IF thread = "main" THEN tasks ELSE Stepped(t, Idle)
    /\ last' = Ev("populate_groups", thread, ROOT, 0, "-", FALSE, "none")

\* populate_groups() up to and including the start of its thread; `thread` calls it
PopulateGroups(thread, t) ==
    IF client = NONE
    THEN /\ tasks' = IF thread = "main" THEN tasks ELSE Stepped(t, Idle)
         /\ last' = Ev("populate_groups", thread, ROOT, 0, "-", FALSE, "rejected")
    ELSE /\ tasks' = Started(t, PopulateFrame)
         /\ last' = Ev("populate_groups", thread, ROOT, 0, "-", FALSE, "none")

\* the 'Làm mới' button
OnRefresh(t) ==
    /\ tasks[t].pc = "idle"
    /\ PopulateGroups("main", t)
    /\ UNCHANGED <<srvGroups, srvProjects, client, user_info, token, all_groups,
                   last_parent_name, last_subgroup_name, tree, sel, focus, buttons,
                   current_project_id, logVars, hp, disk, save_token_var>>

\* groups = self.client.list_groups()
PopulateFetch(t) ==
    /\ tasks[t].kind = "populate" /\ tasks[t].pc = "fetch"
    /\ IF client = NONE
       THEN /\ tasks' = Stepped(t, Failed(t))
            /\ last' = Ev("populate.task", t, ROOT, 0, "-", FALSE, "log+box")
       ELSE \E ok \in BOOLEAN :
            IF ok
            THEN /\ tasks' = Stepped(t, [tasks[t] EXCEPT !.pc = "assign", !.groups = srvGroups])
                 /\ last' = Ev("populate.task", t, ROOT, 1, "ok", FALSE, "none")
            ELSE /\ tasks' = Stepped(t, Failed(t))
                 /\ last' = Ev("populate.task", t, ROOT, 1, "fail", FALSE, "log+box")
    /\ UNCHANGED <<srvGroups, srvProjects, client, user_info, token, all_groups,
                   last_parent_name, last_subgroup_name, tree, sel, focus, buttons,
                   current_project_id, logVars, hp, disk, save_token_var>>

\* self._all_groups = groups
PopulateAssign(t) ==
    /\ tasks[t].kind = "populate" /\ tasks[t].pc = "assign"
    /\ all_groups' = tasks[t].groups
    /\ tasks' = Stepped(t, [tasks[t] EXCEPT !.pc = "children"])
    /\ last' = Ev("populate.task", t, ROOT, 0, "-", FALSE, "none")
    /\ UNCHANGED <<srvGroups, srvProjects, client, user_info, token,
                   last_parent_name, last_subgroup_name, tree, sel, focus, buttons,
                   current_project_id, logVars, hp, disk, save_token_var>>

\* self.tree.get_children()
PopulateChildren(t) ==
    /\ tasks[t].kind = "populate" /\ tasks[t].pc = "children"
    /\ tasks' = Stepped(t, [tasks[t] EXCEPT !.pc = "delete",
                                             !.children = TreeChildren(tree, ROOT)])
    /\ last' = Ev("populate.task", t, ROOT, 0, "-", FALSE, "none")
    /\ UNCHANGED <<srvGroups, srvProjects, client, user_info, token, all_groups,
                   last_parent_name, last_subgroup_name, tree, sel, focus, buttons,
                   current_project_id, logVars, hp, disk, save_token_var>>

\* self.tree.delete(*children); roots = sorted(...)
PopulateDelete(t) ==
    /\ tasks[t].kind = "populate" /\ tasks[t].pc = "delete"
    /\ IF CanDelete(tree, tasks[t].children)
       THEN LET roots == SortedRoots(tasks[t].groups)
                tr == TreeDelete(tree, tasks[t].children)
            IN  /\ tree' = tr
                /\ sel' = Surviving(tr, sel)
                /\ focus' = Surviving(tr, focus)
                /\ tasks' = Stepped(t, [tasks[t] EXCEPT
                                 !.pc = IF roots = <<>> THEN "done" ELSE "insert",
                                 !.todo = roots])
                /\ last' = Ev("populate.task", t, ROOT, 0, "-", TRUE, "none")
       ELSE /\ tasks' = Stepped(t, Failed(t))
            /\ last' = Ev("populate.task", t, ROOT, 0, "-", TRUE, "log+box")
            /\ UNCHANGED <<tree, sel, focus>>
    /\ UNCHANGED <<srvGroups, srvProjects, client, user_info, token, all_groups,
                   last_parent_name, last_subgroup_name, buttons,
                   current_project_id, logVars, hp, disk, save_token_var>>

\* self.tree.insert('', 'end', iid=iid, text=name, values=('group', id))
PopulateInsert(t) ==
    /\ tasks[t].kind = "populate" /\ tasks[t].pc = "insert"
    /\ LET rg == tasks[t].todo[1]
           iid == GroupIid(rg.id)
       IN  IF CanInsert(tree, ROOT, iid)
           THEN /\ tree' = TreeInsert(tree, ROOT, iid, rg.name, <<"group", rg.id>>)
                /\ tasks' = Stepped(t, [tasks[t] EXCEPT !.pc = "dummy"])
                /\ last' = Ev("populate.task", t, iid, 0, "-", TRUE, "none")
           ELSE /\ tasks' = Stepped(t, Failed(t))
                /\ last' = Ev("populate.task", t, iid, 0, "-", TRUE, "log+box")
                /\ UNCHANGED tree
    /\ UNCHANGED <<srvGroups, srvProjects, client, user_info, token, all_groups,
                   last_parent_name, last_subgroup_name, sel, focus, buttons,
                   current_project_id, logVars, hp, disk, save_token_var>>

\* self.tree.insert(iid, 'end', iid=f"{iid}_dummy", ...), then on to the next root
PopulateDummy(t) ==
    /\ tasks[t].kind = "populate" /\ tasks[t].pc = "dummy"
    /\ LET iid == GroupIid(tasks[t].todo[1].id)
           rest == Tail(tasks[t].todo)
       IN  IF CanInsert(tree, iid, DummyOf(iid))
           THEN /\ tree' = TreeInsert(tree, iid, DummyOf(iid), DummyText, <<>>)
                /\ tasks' = Stepped(t, [tasks[t] EXCEPT
                                 !.pc = IF rest = <<>> THEN "done" ELSE "insert",
                                 !.todo = rest])
                /\ last' = Ev("populate.task", t, iid, 0, "-", TRUE, "none")
           ELSE /\ tasks' = Stepped(t, Failed(t))
                /\ last' = Ev("populate.task", t, iid, 0, "-", TRUE, "log+box")
                /\ UNCHANGED tree
    /\ UNCHANGED <<srvGroups, srvProjects, client, user_info, token, all_groups,
                   last_parent_name, last_subgroup_name, sel, focus, buttons,
                   current_project_id, logVars, hp, disk, save_token_var>>

-----------------------------------------------------------------------------
(* The saved token: save_token, load_token, delete_saved_token *)

\* the characters of the tokens; their UTF-8 bytes are the character codes
TokenText(tok) ==
    CASE tok = "good" -> <<103, 111, 111, 100>>
      [] tok = "bad" -> <<98, 97, 100>>

\* the texts save_token is given: 'good', 'bad', 'a/', '~'
TokenTexts == {TokenText("good"), TokenText("bad"), <<97, 47>>, <<126>>}

\* base64: the character of a 6-bit value, '=' for padding, and back
B64Char(v) ==
    IF v < 26 THEN 65 + v
    ELSE IF v < 52 THEN 97 + (v - 26)
    ELSE IF v < 62 THEN 48 + (v - 52)
    ELSE IF v = 62 THEN 43 ELSE 47

B64Pad == 61

B64Value(c) == CHOOSE v \in 0..63 : B64Char(v) = c

RECURSIVE B64Encode(_)
B64Encode(b) ==
    IF b = <<>> THEN <<>>
    ELSE IF Len(b) = 1
    THEN <<B64Char(b[1] \div 4), B64Char((b[1] % 4) * 16), B64Pad, B64Pad>>
    ELSE IF Len(b) = 2
    THEN <<B64Char(b[1] \div 4), B64Char((b[1] % 4) * 16 + b[2] \div 16),
           B64Char((b[2] % 16) * 4), B64Pad>>
    ELSE <<B64Char(b[1] \div 4), B64Char((b[1] % 4) * 16 + b[2] \div 16),
           B64Char((b[2] % 16) * 4 + b[3] \div 64), B64Char(b[3] % 64)>>
         \o B64Encode(SubSeq(b, 4, Len(b)))

RECURSIVE B64Decode(_)
B64Decode(c) ==
    IF Len(c) < 4 THEN <<>>
    ELSE LET v1 == B64Value(c[1])
             v2 == B64Value(c[2])
         IN  IF c[3] = B64Pad THEN <<v1 * 4 + v2 \div 16>>
             ELSE IF c[4] = B64Pad
             THEN <<v1 * 4 + v2 \div 16, (v2 % 16) * 16 + B64Value(c[3]) \div 4>>
             ELSE <<v1 * 4 + v2 \div 16, (v2 % 16) * 16 + B64Value(c[3]) \div 4,
                    (B64Value(c[3]) % 4) * 64 + B64Value(c[4])>>
                  \o B64Decode(SubSeq(c, 5, Len(c)))

\* save_token(text) on the storage d: the keyring entry when the keyring is there,
\* else the base64 text in the fallback file; written is false when that raises
SaveToken(d, text, written) ==
    IF ~written THEN [disk |-> d, ok |-> FALSE]
    ELSE IF d.keyring_available THEN [disk |-> [d EXCEPT !.keyring = <<text>>], ok |-> TRUE]
    ELSE [disk |-> [d EXCEPT !.token_file = <<B64Encode(text)>>], ok |-> TRUE]

\* load_token() on the storage d: <<text>>, or NoFile for None
LoadToken(d) ==
    IF d.keyring_available THEN d.keyring
    ELSE IF d.token_file # NoFile /\ Strip(d.token_file[1]) # EmptyText
    THEN <<B64Decode(Strip(d.token_file[1]))>>
    ELSE NoFile

\* delete_saved_token() on the storage d: keyring.delete_password raises when
\* there is no entry; an os.remove that raises (removed is false) is passed over
DeleteSavedToken(d, removed) ==
    IF d.keyring_available /\ d.keyring = NoFile THEN [disk |-> d, ok |-> FALSE]
    ELSE [disk |-> [d EXCEPT !.keyring = NoFile,
                             !.token_file = IF removed THEN NoFile ELSE @],
          ok |-> TRUE]

-----------------------------------------------------------------------------
(* on_login, on_logout *)

UserName(tok) == "user"

LoginFrame(tok) == [kind |-> "login", pc |-> "test", alone |-> TRUE, token |-> tok]

\* the 'Đăng nhập' button; typed is the stripped content of the token entry
OnLogin(t, typed) ==
    /\ tasks[t].pc = "idle"
    /\ IF typed = ""
       THEN /\ last' = Ev("on_login", "main", ROOT, 0, "-", FALSE, "rejected")
            /\ UNCHANGED tasks
       ELSE /\ tasks' = Started(t, LoginFrame(typed))
            /\ last' = Ev("on_login", "main", ROOT, 0, "-", FALSE, "none")
    /\ UNCHANGED <<srvGroups, srvProjects, client, user_info, token, all_groups,
                   last_parent_name, last_subgroup_name, tree, sel, focus, buttons,
                   current_project_id, logVars, hp, disk, save_token_var>>

\* GitLabClient.test(): GET /user answers 200 for a valid token when the server is up
TestOk(tok, up) == up /\ tok \in ValidTokens

\* what the task does with a token that was saved before it was tested
LoginResultSaveFirst(tok, up, d, save, written) ==
    [ok |-> TestOk(tok, up),
     disk |-> IF save THEN SaveToken(d, TokenText(tok), written).disk ELSE d]

\* c.test(), and only when it returned: save_token(token) if the box is checked
LoginResult(tok, up, d, save, written) ==
    IF TestOk(tok, up)
    THEN [ok |-> TRUE,
          disk |-> IF save THEN SaveToken(d, TokenText(tok), written).disk ELSE d]
    ELSE [ok |-> FALSE, disk |-> d]

\* c = GitLabClient(token); user = c.test(); self.client = c; ...; save_token
LoginTest(t) ==
    /\ tasks[t].kind = "login" /\ tasks[t].pc = "test"
    /\ \E up \in BOOLEAN, written \in BOOLEAN :
         LET r == LoginResult(tasks[t].token, up, disk, save_token_var, written)
         IN  /\ disk' = r.disk
             /\ IF r.ok
                THEN /\ client' = tasks[t].token
                     /\ user_info' = UserName(tasks[t].token)
                     /\ token' = tasks[t].token
                     /\ tasks' = Stepped(t, [tasks[t] EXCEPT !.pc = "populate"])
                     /\ last' = Ev("on_login.task", t, ROOT, 1, "ok", FALSE, "none")
                ELSE /\ tasks' = Stepped(t, Failed(t))
                     /\ last' = Ev("on_login.task", t, ROOT, 1, "fail", FALSE, "log+box")
                     /\ UNCHANGED <<client, user_info, token>>
    /\ UNCHANGED <<srvGroups, srvProjects, all_groups,
                   last_parent_name, last_subgroup_name, tree, sel, focus, buttons,
                   current_project_id, logVars, hp, save_token_var>>

\* self.populate_groups() at the end of the login task: the new thread takes the slot
LoginPopulate(t) ==
    /\ tasks[t].kind = "login" /\ tasks[t].pc = "populate"
    /\ PopulateGroups(t, t)
    /\ UNCHANGED <<srvGroups, srvProjects, client, user_info, token, all_groups,
                   last_parent_name, last_subgroup_name, tree, sel, focus, buttons,
                   current_project_id, logVars, hp, disk, save_token_var>>

OnLogout ==
    /\ client # NONE
    /\ client' = NONE
    /\ user_info' = NONE
    /\ token' = NONE
    /\ last' = Ev("on_logout", "main", ROOT, 0, "-", FALSE, "none")
    /\ UNCHANGED <<srvGroups, srvProjects, all_groups,
                   last_parent_name, last_subgroup_name, tree, sel, focus, buttons,
                   current_project_id, tasks, logVars, hp, disk, save_token_var>>

-----------------------------------------------------------------------------
(* Lazy loading: on_tree_open and its loaders.  They run on the main thread, *)
(* inside the Tk event loop.                                                 *)

\* GET /groups/:id/projects as the server answers it
ProjectsInGroup(group_id) == SelectSeq(srvProjects, LAMBDA p : p.namespace = group_id)

SubgroupsOf(groups, group_id) == SelectSeq(groups, LAMBDA g : g.parent_id = group_id)

RECURSIVE SubgroupInserts(_, _)
SubgroupInserts(item, subgs) ==
    IF subgs = <<>> THEN <<>>
    ELSE LET iid == SubgroupIid(subgs[1].id)
         IN  <<Ins(item, iid, subgs[1].name, <<"subgroup", subgs[1].id>>),
               Ins(iid, DummyOf(iid), DummyText, <<>>)>>
             \o SubgroupInserts(item, Tail(subgs))

ProjectInserts(item, projects) ==
    [i \in 1..Len(projects) |->
        Ins(item, ProjectIid(projects[i].id), ProjectPrefix \o projects[i].name,
            <<"project", projects[i].id>>)]

Loaded(tr, http, resp, err) == [tree |-> tr, http |-> http, resp |-> resp, err |-> err]

\* the request and the inserts of the projects, shared by the two loaders
LoadProjects(tr, item, group_id, up) ==
    IF client = NONE THEN Loaded(tr, 0, "-", "log")
    ELSE IF ~up THEN Loaded(tr, 1, "fail", "log")
    ELSE LET r == InsertAll(tr, ProjectInserts(item, SortedByName(ProjectsInGroup(group_id))))
         IN  Loaded(r.tree, 1, "ok", IF r.ok THEN "none" ELSE "log")

LoadSubgroupsAndProjects(tr, item, group_id, up) ==
    LET r == InsertAll(tr, SubgroupInserts(item, SortedByName(SubgroupsOf(all_groups, group_id))))
    IN  IF ~r.ok THEN Loaded(r.tree, 0, "-", "log")
        ELSE LoadProjects(r.tree, item, group_id, up)

LoadProjectsForSubgroup(tr, item, subgroup_id, up) == LoadProjects(tr, item, subgroup_id, up)

\* the project branch of on_tree_open: the two inserts are in no try block
LoadRepoNode(tr, item, proj_id) ==
    LET r == InsertAll(tr, <<Ins(item, RepoIid(proj_id), RepoText, <<"repo", proj_id>>),
                             Ins(RepoIid(proj_id), DummyOf(RepoIid(proj_id)), DummyText, <<>>)>>)
    IN  Loaded(r.tree, 0, "-", IF r.ok THEN "none" ELSE "escaped")

DummyChildren(tr, item) == SelectSeq(TreeChildren(tr, item), IsDummy)

\* the children are already loaded: there are some and none is a placeholder
AlreadyLoaded(tr, item) ==
    TreeChildren(tr, item) # <<>> /\ DummyChildren(tr, item) = <<>>

\* <<TreeviewOpen>> on the focused item
OnTreeOpen ==
    /\ focus # ROOT
    /\ LET item == focus
           v == TreeValues(tree, item)
       IN  IF v = <<>> \/ AlreadyLoaded(tree, item)
           THEN /\ last' = Ev("on_tree_open", "main", item, 0, "-", FALSE, "none")
                /\ UNCHANGED <<tree, tasks>>
           ELSE \E up \in BOOLEAN :
                LET tr == TreeDelete(tree, DummyChildren(tree, item))
                    r == CASE v[1] = "group" -> LoadSubgroupsAndProjects(tr, item, v[2], up)
                           [] v[1] = "subgroup" -> LoadProjectsForSubgroup(tr, item, v[2], up)
                           [] v[1] = "project" -> LoadRepoNode(tr, item, v[2])
                           [] OTHER -> Loaded(tr, 0, "-", "none")
                IN  /\ tree' = r.tree
                    /\ tasks' = Disturbed("main")
                    /\ last' = Ev("on_tree_open", "main", item, r.http, r.resp,
                                  r.tree # tree \/ r.err # "none", r.err)
    /\ UNCHANGED <<srvGroups, srvProjects, client, user_info, token, all_groups,
                   last_parent_name, last_subgroup_name, sel, focus, buttons,
                   current_project_id, logVars, hp, disk, save_token_var>>

-----------------------------------------------------------------------------
(* Selection: on_tree_select, open_blob_in_viewer, action_download_file *)

Parent(tr, iid) == CHOOSE p \in DOMAIN tr.kids : iid \in Range(tr.kids[p])

\* the id of the nearest ancestor whose values say 'project', or NoId
RECURSIVE ProjectAbove(_, _)
ProjectAbove(tr, iid) ==
    LET parent == Parent(tr, iid)
    IN  IF parent = ROOT THEN NoId
        ELSE IF TreeValues(tr, parent) # <<>> /\ TreeValues(tr, parent)[1] = "project"
             THEN TreeValues(tr, parent)[2]
        ELSE ProjectAbove(tr, parent)

TypeOf(tr, iid) ==
    IF ~TreeExists(tr, iid) \/ TreeValues(tr, iid) = <<>> THEN "none"
    ELSE TreeValues(tr, iid)[1]

\* open_blob_in_viewer: the raw file is fetched by the caller's thread
OpenBlobInViewer(thread, item, up) ==
    IF ProjectAbove(tree, item) = NoId THEN Ev("on_tree_select", thread, item, 0, "-", FALSE, "none")
    ELSE IF client = NONE THEN Ev("on_tree_select", thread, item, 0, "-", FALSE, "log+box")
    ELSE IF up THEN Ev("on_tree_select", thread, item, 1, "ok", FALSE, "none")
    ELSE Ev("on_tree_select", thread, item, 1, "fail", FALSE, "log+box")

\* the state on_tree_select gives the action buttons for a selected item of this type
ButtonsFor(typ) == typ = "project"

\* a click on an item: Tk focuses and selects it, <<TreeviewSelect>> runs on_tree_select
OnTreeSelect(item) ==
    /\ TreeExists(tree, item)
    /\ sel' = item
    /\ focus' = item
    /\ buttons' = ButtonsFor(TypeOf(tree, item))
    /\ current_project_id' =
          IF TypeOf(tree, item) = "project" THEN TreeValues(tree, item)[2]
          ELSE current_project_id
    /\ \E up \in BOOLEAN :
          last' = IF TypeOf(tree, item) = "blob" THEN OpenBlobInViewer("main", item, up)
                  ELSE Ev("on_tree_select", "main", item, 0, "-", FALSE, "none")
    /\ UNCHANGED <<srvGroups, srvProjects, client, user_info, token, all_groups,
                   last_parent_name, last_subgroup_name, tree, tasks, logVars, hp, disk, save_token_var>>

\* the 'Download file' button, which can be pressed while it is enabled
ActionDownloadFile ==
    /\ buttons
    /\ \E up \in BOOLEAN :
          last' = IF sel = ROOT \/ TypeOf(tree, sel) # "blob"
                  THEN Ev("action_download_file", "main", sel, 0, "-", FALSE, "rejected")
                  ELSE IF ProjectAbove(tree, sel) = NoId
                  THEN Ev("action_download_file", "main", sel, 0, "-", FALSE, "none")
                  ELSE IF client = NONE
                  THEN Ev("action_download_file", "main", sel, 0, "-", FALSE, "log+box")
                  ELSE IF up
                  THEN Ev("action_download_file", "main", sel, 1, "ok", FALSE, "none")
                  ELSE Ev("action_download_file", "main", sel, 1, "fail", FALSE, "log+box")
    /\ UNCHANGED <<srvGroups, srvProjects, client, user_info, token, all_groups,
                   last_parent_name, last_subgroup_name, tree, sel, focus, buttons,
                   current_project_id, tasks, logVars, hp, disk, save_token_var>>

-----------------------------------------------------------------------------
(* on_search and its task *)

SearchQueries == {<<97>>, <<98>>, <<112>>}      \* 'a', 'b', 'p'

\* q in s
Contains(q, s) == \E i \in 0..(Len(s) - Len(q)) : SubSeq(s, i + 1, i + Len(q)) = q

\* ('group', g) for every group of _all_groups whose lower-cased name contains q
GroupMatches(q) ==
    LET hit == SelectSeq(all_groups, LAMBDA g : Contains(q, Lower(g.name)))
    IN  [i \in 1..Len(hit) |->
            [typ |-> "group", id |-> hit[i].id,
             node |-> IF IsRoot(hit[i]) THEN GroupIid(hit[i].id) ELSE SubgroupIid(hit[i].id)]]

\* (v[0], {'id': v[1]}) for the children of one root item whose text contains q
ChildMatches(q, gid) ==
    LET hit == SelectSeq(TreeChildren(tree, gid),
                         LAMBDA c : /\ Contains(q, Lower(tree.item[c].text))
                                    /\ TreeValues(tree, c) # <<>>)
    IN  [i \in 1..Len(hit) |->
            [typ |-> TreeValues(tree, hit[i])[1], id |-> TreeValues(tree, hit[i])[2],
             node |-> hit[i]]]

RECURSIVE TreeMatches(_, _)
TreeMatches(q, gids) ==
    IF gids = <<>> THEN <<>>
    ELSE ChildMatches(q, gids[1]) \o TreeMatches(q, Tail(gids))

\* matches, in the order the task collects them
Matches(q) == GroupMatches(q) \o TreeMatches(q, TreeChildren(tree, ROOT))

\* iid = f"group_{id}" for a match of type 'group', else f"{typ}_{id}"
MatchIid(m) == <<m.typ, m.id>>

SearchFrame(q) ==
    [kind |-> "search", pc |-> "match", alone |-> TRUE, q |-> q, iid |-> ROOT, node |-> ROOT]

\* the 'Tìm' button; typed is the stripped, lower-cased content of the search entry
OnSearch(t, typed) ==
    /\ tasks[t].pc = "idle"
    /\ IF typed = EmptyText
       THEN /\ last' = Ev("on_search", "main", ROOT, 0, "-", FALSE, "rejected")
            /\ UNCHANGED tasks
       ELSE /\ tasks' = Started(t, SearchFrame(typed))
            /\ last' = Ev("on_search", "main", ROOT, 0, "-", FALSE, "none")
    /\ UNCHANGED <<srvGroups, srvProjects, client, user_info, token, all_groups,
                   last_parent_name, last_subgroup_name, tree, sel, focus, buttons,
                   current_project_id, logVars, hp, disk, save_token_var>>

\* the task collects the matches, takes the first and looks whether its item exists
SearchMatch(t) ==
    /\ tasks[t].kind = "search" /\ tasks[t].pc = "match"
    /\ LET ms == Matches(tasks[t].q)
       IN  IF ms = <<>>
           THEN /\ tasks' = Stepped(t, Idle)
                /\ last' = Ev("on_search.task", t, ROOT, 0, "-", FALSE, "not found")
           ELSE /\ tasks' = Stepped(t, [tasks[t] EXCEPT
                                 !.pc = IF TreeExists(tree, MatchIid(ms[1])) THEN "see"
                                        ELSE "populate",
                                 !.iid = MatchIid(ms[1]), !.node = ms[1].node])
                /\ last' = Ev("on_search.task", t, ROOT, 0, "-", FALSE, "none")
    /\ UNCHANGED <<srvGroups, srvProjects, client, user_info, token, all_groups,
                   last_parent_name, last_subgroup_name, tree, sel, focus, buttons,
                   current_project_id, logVars, hp, disk, save_token_var>>

\* the item does not exist: self.populate_groups(), whose thread takes slot u, and
\* time.sleep(1), during which that thread runs as far as it gets
SearchPopulate(t, u) ==
    /\ tasks[t].kind = "search" /\ tasks[t].pc = "populate"
    /\ u # t /\ tasks[u].pc = "idle"
    /\ IF client = NONE
       THEN /\ tasks' = Stepped(t, [tasks[t] EXCEPT !.pc = "see"])
            /\ last' = Ev("populate_groups", t, ROOT, 0, "-", FALSE, "rejected")
       ELSE /\ tasks' = [Started(u, PopulateFrame) EXCEPT
                            ![t] = [tasks[t] EXCEPT !.pc = "see", !.alone = FALSE]]
            /\ last' = Ev("populate_groups", t, ROOT, 0, "-", FALSE, "none")
    /\ UNCHANGED <<srvGroups, srvProjects, client, user_info, token, all_groups,
                   last_parent_name, last_subgroup_name, tree, sel, focus, buttons,
                   current_project_id, logVars, hp, disk, save_token_var>>

\* self.tree.see(iid); self.tree.selection_set(iid), which raises TclError for an
\* item that does not exist; the <<TreeviewSelect>> it sends runs on_tree_select
SearchSee(t) ==
    /\ tasks[t].kind = "search" /\ tasks[t].pc = "see"
    /\ LET iid == tasks[t].iid
       IN  IF TreeExists(tree, iid)
           THEN /\ sel' = iid
                /\ buttons' = ButtonsFor(TypeOf(tree, iid))
                /\ current_project_id' =
                      IF TypeOf(tree, iid) = "project" THEN TreeValues(tree, iid)[2]
                      ELSE current_project_id
                /\ last' = Ev("on_search.task", t, tasks[t].node, 0, "-", FALSE, "none")
           ELSE /\ last' = Ev("on_search.task", t, tasks[t].node, 0, "-", FALSE, "log+box")
                /\ UNCHANGED <<sel, buttons, current_project_id>>
    /\ tasks' = Stepped(t, Idle)
    /\ UNCHANGED <<srvGroups, srvProjects, client, user_info, token, all_groups,
                   last_parent_name, last_subgroup_name, tree, focus, logVars, hp, disk, save_token_var>>

\* the inserts of populate_groups.task and _load_cache for the sorted roots
RECURSIVE RootInserts(_)
RootInserts(roots) ==
    IF roots = <<>> THEN <<>>
    ELSE <<Ins(ROOT, GroupIid(roots[1].id), roots[1].name, <<"group", roots[1].id>>),
           Ins(GroupIid(roots[1].id), DummyOf(GroupIid(roots[1].id)), DummyText, <<>>)>>
         \o RootInserts(Tail(roots))

-----------------------------------------------------------------------------
(* Calls of the token functions *)

\* a click on the 'Lưu Token' box
OnToggleSave ==
    /\ save_token_var' = ~save_token_var
    /\ last' = Ev("chk_save", "main", ROOT, 0, "-", FALSE, "none")
    /\ UNCHANGED <<srvGroups, srvProjects, client, user_info, token, all_groups,
                   last_parent_name, last_subgroup_name, tree, sel, focus, buttons,
                   current_project_id, tasks, logVars, hp, disk>>

\* a call of save_token
SaveTokenCall(text) ==
    /\ \E written \in BOOLEAN :
          LET r == SaveToken(disk, text, written)
          IN  /\ disk' = r.disk
              /\ last' = Ev("save_token", "main", text, 0, "-", FALSE,
                            IF r.ok THEN "none" ELSE "failed")
    /\ UNCHANGED <<srvGroups, srvProjects, client, user_info, token, all_groups,
                   last_parent_name, last_subgroup_name, tree, sel, focus, buttons,
                   current_project_id, tasks, logVars, hp, save_token_var>>

\* the 'Xóa token lưu' button, confirmed: on_delete_token calls delete_saved_token
OnDeleteToken ==
    /\ \E removed \in BOOLEAN :
          LET r == DeleteSavedToken(disk, removed)
          IN  /\ disk' = r.disk
              /\ last' = Ev("delete_saved_token", "main", ROOT, 0, "-", FALSE,
                            IF r.ok THEN "none" ELSE "box")
    /\ UNCHANGED <<srvGroups, srvProjects, client, user_info, token, all_groups,
                   last_parent_name, last_subgroup_name, tree, sel, focus, buttons,
                   current_project_id, tasks, logVars, hp, save_token_var>>

-----------------------------------------------------------------------------
(* The cache file: save_cache, and _load_cache in the constructor *)

\* JSON values, as json.dump writes and json.load reads them
JNull == <<"null">>
JNum(n) == <<"number", n>>
JStr(text) == <<"string", text>>
JArr(values) == <<"array", values>>
JObj(pairs) == <<"object", pairs>>

\* dict.get(key, default) on a loaded JSON object
JGet(obj, key, default) ==
    LET hit == SelectSeq(obj[2], LAMBDA kv : kv[1] = key)
    IN  IF hit = <<>> THEN default ELSE hit[Len(hit)][2]

\* None is written as null, a str as a string, an int as a number
DumpName(name) == IF name = NoName THEN JNull ELSE JStr(name[1])
DumpId(id) == IF id = NoId THEN JNull ELSE JNum(id)
LoadName(j) == IF j[1] = "null" THEN NoName ELSE <<j[2]>>
LoadId(j) == IF j[1] = "null" THEN NoId ELSE j[2]

DumpGroup(g) ==
    JObj(<<<<"id", DumpId(g.id)>>, <<"name", JStr(g.name)>>, <<"parent_id", DumpId(g.parent_id)>>>>)

LoadGroup(j) ==
    [id |-> LoadId(JGet(j, "id", JNull)),
     name |-> JGet(j, "name", JStr(EmptyText))[2],
     parent_id |-> LoadId(JGet(j, "parent_id", JNull))]

\* data = {'groups': ..., 'last_parent': ..., 'last_subgroup': ...}
CacheDataSwapped(groups, last_parent, last_subgroup) ==
    JObj(<<<<"groups", JArr([i \in 1..Len(groups) |-> DumpGroup(groups[i])])>>,
           <<"last_parent", DumpName(last_subgroup)>>,
           <<"last_subgroup", DumpName(last_parent)>>>>)

CacheData(groups, last_parent, last_subgroup) ==
    JObj(<<<<"groups", JArr([i \in 1..Len(groups) |-> DumpGroup(groups[i])])>>,
           <<"last_parent", DumpName(last_parent)>>,
           <<"last_subgroup", DumpName(last_subgroup)>>>>)

\* data.get('groups', []), data.get('last_parent'), data.get('last_subgroup')
CacheGroups(data) ==
    LET arr == JGet(data, "groups", JArr(<<>>))[2]
    IN  [i \in 1..Len(arr) |-> LoadGroup(arr[i])]
CacheLastParent(data) == LoadName(JGet(data, "last_parent", JNull))
CacheLastSubgroup(data) == LoadName(JGet(data, "last_subgroup", JNull))

\* save_cache: the file is written unless open() raises
WriteCache ==
    \E ok \in BOOLEAN :
       IF ok
       THEN /\ disk' = [disk EXCEPT
                  !.cache_file = <<CacheData(all_groups, last_parent_name, last_subgroup_name)>>,
                  !.saved = <<[groups |-> all_groups, last_parent |-> last_parent_name,
                               last_subgroup |-> last_subgroup_name]>>]
            /\ last' = Ev("save_cache", "main", ROOT, 0, "-", FALSE, "none")
       ELSE /\ last' = Ev("save_cache", "main", ROOT, 0, "-", FALSE, "log+box")
            /\ UNCHANGED disk

\* the 'Lưu cache' button
SaveCache ==
    /\ WriteCache
    /\ UNCHANGED <<srvGroups, srvProjects, client, user_info, token, all_groups,
                   last_parent_name, last_subgroup_name, tree, sel, focus, buttons,
                   current_project_id, tasks, logVars, hp, save_token_var>>

\* the program is started again: __init__ sets the attributes, checks the box
\* when load_token() finds a token, builds the empty tree and calls _load_cache,
\* which reads the file when it exists
Restart ==
    /\ client' = NONE
    /\ user_info' = NONE
    /\ token' = NONE
    /\ sel' = ROOT
    /\ focus' = ROOT
    /\ buttons' = FALSE
    /\ current_project_id' = NoId
    /\ tasks' = [t \in Tasks |-> Idle]
    /\ IF disk.cache_file = NoFile
       THEN /\ all_groups' = <<>>
            /\ last_parent_name' = NoName
            /\ last_subgroup_name' = NoName
            /\ tree' = EmptyTree
            /\ last' = Ev("__init__", "main", ROOT, 0, "-", FALSE, "none")
       ELSE LET data == disk.cache_file[1]
                groups == CacheGroups(data)
                r == InsertAll(EmptyTree, RootInserts(SortedRoots(groups)))
            IN  /\ all_groups' = groups
                /\ last_parent_name' = CacheLastParent(data)
                /\ last_subgroup_name' = CacheLastSubgroup(data)
                /\ tree' = r.tree
                /\ last' = Ev("_load_cache", "main", ROOT, 0, "-", r.tree # EmptyTree,
                              IF r.ok THEN "none" ELSE "log")
    /\ save_token_var' = (LoadToken(disk) # NoFile)
    /\ UNCHANGED <<srvGroups, srvProjects, logVars, hp, disk>>

-----------------------------------------------------------------------------
(* open_create_popup: do_create and its task *)

CreateNames == {Namea}

\* find_group_by_name: the first group whose stripped, lower-cased name matches
RECURSIVE FirstMatch(_, _)
FirstMatch(groups, key) ==
    IF groups = <<>> THEN <<>>
    ELSE IF Lower(Strip(groups[1].name)) = key THEN <<groups[1]>>
    ELSE FirstMatch(Tail(groups), key)

\* <<g>> for the group found, <<>> for None
FindGroupByName(name) == FirstMatch(all_groups, Lower(Strip(name)))

\* the values the popup's two comboboxes can hold
ParentChoices == {EmptyText} \cup {g.name : g \in {x \in Range(all_groups) : IsRoot(x)}}
SubgroupChoices == {EmptyText} \cup {g.name : g \in {x \in Range(all_groups) : ~IsRoot(x)}}

\* the namespace of a new project: the subgroup if one is chosen and found, else the group
NamespaceId(parent, sub) ==
    LET pg == IF parent # EmptyText THEN FindGroupByName(parent) ELSE <<>>
        pgid == IF pg = <<>> THEN NoId ELSE pg[1].id
        subs == IF sub = EmptyText THEN <<>>
                ELSE SelectSeq(all_groups, LAMBDA s : s.name = sub /\ s.parent_id = pgid)
    IN  IF subs # <<>> THEN subs[1].id
        ELSE IF pg # <<>> THEN pg[1].id
        ELSE NoId

\* the frame of do_create's task: its branch, the keep_open option, the name and id
\* the server gave (res), the node the new one goes under, and for a project the
\* texts of the two comboboxes
CreateFrame(choice, keep) ==
    [kind |-> "create", pc |-> "start", alone |-> TRUE, choice |-> choice, keep |-> keep,
     name |-> EmptyText, id |-> NoId, under |-> ROOT, parent |-> EmptyText, sub |-> EmptyText]

\* POST /groups
NewGroup(name, parent_id) == [id |-> NextId(srvGroups), name |-> Strip(name), parent_id |-> parent_id]

\* POST /projects
NewProject(name, namespace_id) ==
    [id |-> NextId(srvProjects), name |-> Strip(name), namespace |-> namespace_id]

CreateRejected(t) ==
    /\ tasks' = Disturbed(t)
    /\ last' = Ev("do_create.task", t, ROOT, 0, "-", FALSE, "rejected")
    /\ UNCHANGED <<srvGroups, srvProjects, last_parent_name, last_subgroup_name>>

CreateRaised(t, http) ==
    /\ tasks' = Disturbed(t)
    /\ last' = Ev("do_create.task", t, ROOT, http, IF http = 0 THEN "-" ELSE "fail", FALSE, "log+box")
    /\ UNCHANGED <<srvGroups, srvProjects, last_parent_name, last_subgroup_name>>

\* The popup's 'Tạo' button.  do_create reads the fields on the main thread and
\* starts the task; the step runs the task through the checks of the chosen branch
\* and its create request, and sets the last-used names.
\* The subgroup combobox offers names only once a parent group is selected, and
\* clear_fields empties both, so a subgroup is never chosen without a parent.
DoCreate(t, choice, name, parent, sub, keep) ==
    /\ tasks[t].pc = "idle"
    /\ parent \in ParentChoices
    /\ sub \in SubgroupChoices
    /\ sub # EmptyText => parent # EmptyText
    /\ LET f == CreateFrame(choice, keep)
           g == FindGroupByName(parent)
           ns == NamespaceId(parent, sub)
       IN  \E up \in BOOLEAN :
           CASE choice = "group" ->
                  IF client = NONE THEN CreateRaised(t, 0)
                  ELSE IF ~up \/ Len(srvGroups) >= MaxGroups THEN CreateRaised(t, 1)
                  ELSE /\ srvGroups' = Append(srvGroups, NewGroup(name, NoId))
                       /\ last_parent_name' = <<Strip(name)>>
                       /\ last_subgroup_name' = NoName
                       /\ tasks' = Started(t, [f EXCEPT !.pc = "insert", !.name = Strip(name),
                                                  !.id = NextId(srvGroups), !.under = ROOT])
                       /\ last' = Ev("do_create.task", t, ROOT, 1, "ok", FALSE, "none")
                       /\ UNCHANGED srvProjects
             [] choice = "subgroup" ->
                  IF parent = EmptyText \/ g = <<>> THEN CreateRejected(t)
                  ELSE IF client = NONE THEN CreateRaised(t, 0)
                  ELSE IF ~up \/ Len(srvGroups) >= MaxGroups THEN CreateRaised(t, 1)
                  ELSE /\ srvGroups' = Append(srvGroups, NewGroup(name, g[1].id))
                       /\ last_parent_name' = <<parent>>
                       /\ last_subgroup_name' = <<Strip(name)>>
                       /\ tasks' = Started(t, [f EXCEPT !.pc = "exists", !.name = Strip(name),
                                                  !.id = NextId(srvGroups),
                                                  !.under = GroupIid(g[1].id)])
                       /\ last' = Ev("do_create.task", t, ROOT, 1, "ok", FALSE, "none")
                       /\ UNCHANGED srvProjects
             [] OTHER ->
                  IF ns = NoId THEN CreateRejected(t)
                  ELSE IF client = NONE THEN CreateRaised(t, 0)
                  ELSE IF ~up \/ Len(srvProjects) >= MaxProjects THEN CreateRaised(t, 1)
                  ELSE /\ srvProjects' = Append(srvProjects, NewProject(name, ns))
                       /\ IF sub # EmptyText
                          THEN last_subgroup_name' = <<sub>> /\ UNCHANGED last_parent_name
                          ELSE last_parent_name' = <<parent>> /\ UNCHANGED last_subgroup_name
                       /\ tasks' = Started(t, [f EXCEPT !.pc = "exists", !.name = Strip(name),
                                                  !.id = NextId(srvProjects), !.under = <<ns>>,
                                                  !.parent = parent, !.sub = sub])
                       /\ last' = Ev("do_create.task", t, ROOT, 1, "ok", FALSE, "none")
                       /\ UNCHANGED srvGroups
    /\ UNCHANGED <<client, user_info, token, all_groups, tree, sel, focus, buttons,
                   current_project_id, logVars, hp, disk, save_token_var>>

\* self.tree.exists(...): where the new node goes, if anywhere
CreateExists(t) ==
    /\ tasks[t].kind = "create" /\ tasks[t].pc = "exists"
    /\ LET f == tasks[t]
           under == IF f.choice = "subgroup"
                    THEN (IF TreeExists(tree, f.under) THEN f.under ELSE ROOT)
                    ELSE IF TreeExists(tree, GroupIid(f.under[1])) THEN GroupIid(f.under[1])
                    ELSE IF TreeExists(tree, SubgroupIid(f.under[1])) THEN SubgroupIid(f.under[1])
                    ELSE ROOT
       IN  /\ tasks' = Stepped(t, Goto([f EXCEPT !.under = under],
                                        IF under # ROOT THEN "insert"
                                        ELSE IF f.choice = "subgroup" THEN "relist"
                                        ELSE "after_save"))
           /\ last' = Ev("do_create.task", t, under, 0, "-", FALSE, "none")
    /\ UNCHANGED <<srvGroups, srvProjects, client, user_info, token, all_groups,
                   last_parent_name, last_subgroup_name, tree, sel, focus, buttons,
                   current_project_id, logVars, hp, disk, save_token_var>>

CreatedIid(f) ==
    CASE f.choice = "group" -> GroupIid(f.id)
      [] f.choice = "subgroup" -> SubgroupIid(f.id)
      [] OTHER -> ProjectIid(f.id)

CreatedText(f) == IF f.choice = "project" THEN ProjectPrefix \o f.name ELSE f.name

\* self.tree.insert(...) of the new group, subgroup or project
CreateInsert(t) ==
    /\ tasks[t].kind = "create" /\ tasks[t].pc = "insert"
    /\ LET f == tasks[t]
           iid == CreatedIid(f)
       IN  IF CanInsert(tree, f.under, iid)
           THEN /\ tree' = TreeInsert(tree, f.under, iid, CreatedText(f), <<f.choice, f.id>>)
                /\ tasks' = Stepped(t, Goto(f, IF f.choice = "project" THEN "after_save"
                                                ELSE "dummy"))
                /\ last' = Ev("do_create.task", t, iid, 0, "-", TRUE, "none")
           ELSE /\ tasks' = Stepped(t, Failed(t))
                /\ last' = Ev("do_create.task", t, iid, 0, "-", TRUE, "log+box")
                /\ UNCHANGED tree
    /\ UNCHANGED <<srvGroups, srvProjects, client, user_info, token, all_groups,
                   last_parent_name, last_subgroup_name, sel, focus, buttons,
                   current_project_id, logVars, hp, disk, save_token_var>>

\* self.tree.insert(iid, 'end', iid=f"{iid}_dummy", ...)
CreateDummy(t) ==
    /\ tasks[t].kind = "create" /\ tasks[t].pc = "dummy"
    /\ LET f == tasks[t]
           iid == CreatedIid(f)
       IN  IF CanInsert(tree, iid, DummyOf(iid))
           THEN /\ tree' = TreeInsert(tree, iid, DummyOf(iid), DummyText, <<>>)
                /\ tasks' = Stepped(t, [f EXCEPT !.pc = "relist"])
                /\ last' = Ev("do_create.task", t, iid, 0, "-", TRUE, "none")
           ELSE /\ tasks' = Stepped(t, Failed(t))
                /\ last' = Ev("do_create.task", t, iid, 0, "-", TRUE, "log+box")
                /\ UNCHANGED tree
    /\ UNCHANGED <<srvGroups, srvProjects, client, user_info, token, all_groups,
                   last_parent_name, last_subgroup_name, sel, focus, buttons,
                   current_project_id, logVars, hp, disk, save_token_var>>

\* self._all_groups = self.client.list_groups()
CreateRelist(t) ==
    /\ tasks[t].kind = "create" /\ tasks[t].pc = "relist"
    /\ IF client = NONE
       THEN /\ tasks' = Stepped(t, Failed(t))
            /\ last' = Ev("do_create.task", t, ROOT, 0, "-", FALSE, "log+box")
            /\ UNCHANGED all_groups
       ELSE \E up \in BOOLEAN :
            IF up
            THEN /\ all_groups' = srvGroups
                 /\ tasks' = Stepped(t, Goto(tasks[t], IF tasks[t].keep THEN "again" ELSE "done"))
                 /\ last' = Ev("do_create.task", t, ROOT, 1, "ok", FALSE, "none")
            ELSE /\ tasks' = Stepped(t, Failed(t))
                 /\ last' = Ev("do_create.task", t, ROOT, 1, "fail", FALSE, "log+box")
                 /\ UNCHANGED all_groups
    /\ UNCHANGED <<srvGroups, srvProjects, client, user_info, token,
                   last_parent_name, last_subgroup_name, tree, sel, focus, buttons,
                   current_project_id, logVars, hp, disk, save_token_var>>

\* keep_open: new_groups = self.client.list_groups() inside try ... except: pass,
\* and when it returned: win.after(0, lambda: self.save_cache())
CreateRelistAgain(t) ==
    /\ tasks[t].kind = "create" /\ tasks[t].pc = "again"
    /\ IF client = NONE
       THEN /\ last' = Ev("do_create.task", t, ROOT, 0, "-", FALSE, "silent")
            /\ tasks' = Stepped(t, Idle)
            /\ UNCHANGED all_groups
       ELSE \E up \in BOOLEAN :
            IF up
            THEN /\ all_groups' = srvGroups
                 /\ tasks' = Stepped(t, Goto(tasks[t], "after_save"))
                 /\ last' = Ev("do_create.task", t, ROOT, 1, "ok", FALSE, "none")
            ELSE /\ last' = Ev("do_create.task", t, ROOT, 1, "fail", FALSE, "silent")
                 /\ tasks' = Stepped(t, Idle)
                 /\ UNCHANGED all_groups
    /\ UNCHANGED <<srvGroups, srvProjects, client, user_info, token,
                   last_parent_name, last_subgroup_name, tree, sel, focus, buttons,
                   current_project_id, logVars, hp, disk, save_token_var>>

\* the callback the task left with win.after(0, lambda: self.save_cache()): the
\* main loop runs save_cache
AfterSaveCache(t) ==
    /\ tasks[t].kind = "create" /\ tasks[t].pc = "after_save"
    /\ WriteCache
    /\ tasks' = [tasks EXCEPT ![t] = Idle]
    /\ UNCHANGED <<srvGroups, srvProjects, client, user_info, token, all_groups,
                   last_parent_name, last_subgroup_name, tree, sel, focus, buttons,
                   current_project_id, logVars, hp, save_token_var>>

-----------------------------------------------------------------------------
(* Specifications.  Spec is a browsing session: one task thread at a time,  *)
(* with the handlers of the main thread running between its steps.           *)
(* SpecRace lets two task threads run at once.  SpecCreate is a session with *)
(* the creation popup.                                                       *)

MainTasks == {"t1"}

Next ==
    \/ \E t \in MainTasks : TaskExit(t)
    \/ \E t \in MainTasks, typed \in Tokens \cup {""} : OnLogin(t, typed)
    \/ \E t \in MainTasks : LoginTest(t)
    \/ \E t \in MainTasks : LoginPopulate(t)
    \/ OnLogout
    \/ \E t \in MainTasks : OnRefresh(t)
    \/ \E t \in MainTasks : PopulateFetch(t)
    \/ \E t \in MainTasks : PopulateAssign(t)
    \/ \E t \in MainTasks : PopulateChildren(t)
    \/ \E t \in MainTasks : PopulateDelete(t)
    \/ \E t \in MainTasks : PopulateInsert(t)
    \/ \E t \in MainTasks : PopulateDummy(t)
    \/ OnTreeOpen
    \/ \E item \in DOMAIN tree.item : OnTreeSelect(item)
    \/ ActionDownloadFile

Spec == Init /\ [][Next]_vars

NextRace ==
    \/ \E t \in Tasks : TaskExit(t)
    \/ \E t \in Tasks, typed \in Tokens \cup {""} : OnLogin(t, typed)
    \/ \E t \in Tasks : LoginTest(t)
    \/ \E t \in Tasks : LoginPopulate(t)
    \/ \E t \in Tasks : OnRefresh(t)
    \/ \E t \in Tasks : PopulateFetch(t)
    \/ \E t \in Tasks : PopulateAssign(t)
    \/ \E t \in Tasks : PopulateChildren(t)
    \/ \E t \in Tasks : PopulateDelete(t)
    \/ \E t \in Tasks : PopulateInsert(t)
    \/ \E t \in Tasks : PopulateDummy(t)

SpecRace == Init /\ [][NextRace]_vars

\* the items of the group levels: the ones a creation adds to or puts into the tree
GroupItems == {i \in DOMAIN tree.item : TypeOf(tree, i) \in {"group", "subgroup"}}

NextCreate ==
    \/ OnTreeOpen
    \/ \E item \in GroupItems : OnTreeSelect(item)
    \/ \E t \in MainTasks, choice \in {"group", "subgroup", "project"}, name \in CreateNames,
          parent \in ParentChoices, sub \in SubgroupChoices, keep \in BOOLEAN :
            DoCreate(t, choice, name, parent, sub, keep)
    \/ \E t \in MainTasks : CreateExists(t)
    \/ \E t \in MainTasks : CreateInsert(t)
    \/ \E t \in MainTasks : CreateDummy(t)
    \/ \E t \in MainTasks : CreateRelist(t)
    \/ \E t \in MainTasks : CreateRelistAgain(t)
    \/ \E t \in MainTasks : AfterSaveCache(t)

\* the state a successful login and its load of the groups leave behind, the task
\* thread gone, on a server that holds all its initial groups
InitCreate ==
    /\ srvGroups = InitialGroups(MaxInitGroups)
    /\ srvProjects = InitialProjects(MaxInitGroups, MaxInitProjects)
    /\ client \in ValidTokens
    /\ user_info = UserName(client)
    /\ token = client
    /\ all_groups = srvGroups
    /\ last_parent_name = NoName
    /\ last_subgroup_name = NoName
    /\ tree = InsertAll(EmptyTree, RootInserts(SortedRoots(srvGroups))).tree
    /\ sel = ROOT
    /\ focus = ROOT
    /\ buttons = FALSE
    /\ current_project_id = NoId
    /\ tasks = [t \in Tasks |-> Idle]
    /\ last = Ev("populate.task", "t1", GroupIid(SortedRoots(srvGroups)[Len(SortedRoots(srvGroups))].id),
                 0, "-", TRUE, "none")
    /\ log_queue = <<>>
    /\ log_area = <<>>
    /\ worker = NoLine
    /\ logged = <<>>
    /\ hp = Idle
    /\ disk = EmptyDisk(TRUE)
    /\ save_token_var = FALSE

SpecCreate == InitCreate /\ [][NextCreate]_vars

\* the state a successful login and its load of the groups leave behind, the task
\* thread gone, on a server that holds these groups and projects
InitLoaded(groups, projects) ==
    /\ srvGroups = groups
    /\ srvProjects = projects
    /\ client \in ValidTokens
    /\ user_info = UserName(client)
    /\ token = client
    /\ all_groups = srvGroups
    /\ last_parent_name = NoName
    /\ last_subgroup_name = NoName
    /\ tree = InsertAll(EmptyTree, RootInserts(SortedRoots(srvGroups))).tree
    /\ sel = ROOT
    /\ focus = ROOT
    /\ buttons = FALSE
    /\ current_project_id = NoId
    /\ tasks = [t \in Tasks |-> Idle]
    /\ last = Ev("populate.task", "t1", GroupIid(SortedRoots(srvGroups)[Len(SortedRoots(srvGroups))].id),
                 0, "-", TRUE, "none")
    /\ log_queue = <<>>
    /\ log_area = <<>>
    /\ worker = NoLine
    /\ logged = <<>>
    /\ hp = Idle
    /\ disk = EmptyDisk(TRUE)
    /\ save_token_var = FALSE

\* a server with nested subgroups: group 1, its subgroup 2, and 2's subgroup 3
DeepGroups ==
    <<[id |-> 1, name |-> NameB, parent_id |-> NoId],
      [id |-> 2, name |-> Namea, parent_id |-> 1],
      [id |-> 3, name |-> NameA, parent_id |-> 2]>>

DeepProjects == <<[id |-> 1, name |-> NameB, namespace |-> 2]>>

\* a session of browsing and searching on the server with nested subgroups
NextDeep ==
    \/ OnTreeOpen
    \/ \E item \in DOMAIN tree.item : OnTreeSelect(item)
    \/ \E typed \in SearchQueries \cup {EmptyText} : OnSearch("t1", typed)
    \/ SearchMatch("t1")
    \/ SearchPopulate("t1", "t2")
    \/ SearchSee("t1")
    \/ PopulateFetch("t2")
    \/ PopulateAssign("t2")
    \/ PopulateChildren("t2")
    \/ PopulateDelete("t2")
    \/ PopulateInsert("t2")
    \/ PopulateDummy("t2")
    \/ TaskExit("t2")

SpecDeep == InitLoaded(DeepGroups, DeepProjects) /\ [][NextDeep]_vars

\* what the last-used names can hold
LastNames == {NoName} \cup {<<n>> : n \in Names}

\* sessions that save the cache and start the program again, from every list of
\* groups and every pair of last-used names
InitCache ==
    /\ \E groups \in {InitialGroups(n) : n \in 0..MaxInitGroups} \cup {DeepGroups} :
          /\ srvGroups = groups
          /\ all_groups = groups
          /\ tree = InsertAll(EmptyTree, RootInserts(SortedRoots(groups))).tree
    /\ srvProjects = DeepProjects
    /\ client \in ValidTokens
    /\ user_info = UserName(client)
    /\ token = client
    /\ last_parent_name \in LastNames
    /\ last_subgroup_name \in LastNames
    /\ sel = ROOT
    /\ focus = ROOT
    /\ buttons = FALSE
    /\ current_project_id = NoId
    /\ tasks = [t \in Tasks |-> Idle]
    /\ last = Ev("populate.task", "t1", ROOT, 0, "-", TRUE, "none")
    /\ log_queue = <<>>
    /\ log_area = <<>>
    /\ worker = NoLine
    /\ logged = <<>>
    /\ hp = Idle
    /\ disk = EmptyDisk(TRUE)
    /\ save_token_var = FALSE

NextCache ==
    \/ SaveCache
    \/ Restart
    \/ OnTreeOpen
    \/ \E item \in DOMAIN tree.item : OnTreeSelect(item)

SpecCache == InitCache /\ [][NextCache]_vars

\* calls of the three token functions, with and without a keyring, starting with
\* and without a fallback file left by an earlier session
InitToken ==
    /\ srvGroups = <<>>
    /\ srvProjects = <<>>
    /\ client = NONE
    /\ user_info = NONE
    /\ token = NONE
    /\ all_groups = <<>>
    /\ last_parent_name = NoName
    /\ last_subgroup_name = NoName
    /\ tree = EmptyTree
    /\ sel = ROOT
    /\ focus = ROOT
    /\ buttons = FALSE
    /\ current_project_id = NoId
    /\ tasks = [t \in Tasks |-> Idle]
    /\ last = Ev("init", "main", ROOT, 0, "-", FALSE, "none")
    /\ log_queue = <<>>
    /\ log_area = <<>>
    /\ worker = NoLine
    /\ logged = <<>>
    /\ hp = Idle
    /\ \E k \in BOOLEAN, old \in {NoFile} \cup {<<B64Encode(x)>> : x \in TokenTexts} :
          disk = [EmptyDisk(k) EXCEPT !.token_file = old]
    /\ save_token_var = FALSE

NextToken ==
    \/ \E text \in TokenTexts : SaveTokenCall(text)
    \/ OnDeleteToken

SpecToken == InitToken /\ [][NextToken]_vars

\* sessions of logging in and out with the 'Lưu Token' box, with and without a
\* keyring; one task slot, so a task runs with no further login or refresh
InitLogin ==
    /\ \E n \in 0..MaxInitGroups, m \in 0..MaxInitProjects :
          /\ srvGroups = InitialGroups(n)
          /\ srvProjects = InitialProjects(n, m)
    /\ client = NONE
    /\ user_info = NONE
    /\ token = NONE
    /\ all_groups = <<>>
    /\ last_parent_name = NoName
    /\ last_subgroup_name = NoName
    /\ tree = EmptyTree
    /\ sel = ROOT
    /\ focus = ROOT
    /\ buttons = FALSE
    /\ current_project_id = NoId
    /\ tasks = [t \in Tasks |-> Idle]
    /\ last = Ev("init", "main", ROOT, 0, "-", FALSE, "none")
    /\ log_queue = <<>>
    /\ log_area = <<>>
    /\ worker = NoLine
    /\ logged = <<>>
    /\ hp = Idle
    /\ \E k \in BOOLEAN : disk = EmptyDisk(k)
    /\ save_token_var = FALSE

\* the steps of the login task and of the populate task it starts
LoginTaskSteps ==
    \/ LoginTest("t1")
    \/ LoginPopulate("t1")
    \/ PopulateFetch("t1")
    \/ PopulateAssign("t1")
    \/ PopulateChildren("t1")
    \/ PopulateDelete("t1")
    \/ PopulateInsert("t1")
    \/ PopulateDummy("t1")
    \/ TaskExit("t1")

NextLogin ==
    \/ OnToggleSave
    \/ \E typed \in Tokens \cup {""} : OnLogin("t1", typed)
    \/ OnLogout
    \/ OnDeleteToken
    \/ OnRefresh("t1")
    \/ LoginTaskSteps

\* the threads are scheduled: a task that can take a step takes it
SpecLogin == InitLogin /\ [][NextLogin]_vars /\ WF_vars(LoginTaskSteps)

\* the steps of do_create's task and the callback it leaves for the main loop
CreateTaskSteps ==
    \E t \in MainTasks :
        \/ CreateExists(t)
        \/ CreateInsert(t)
        \/ CreateDummy(t)
        \/ CreateRelist(t)
        \/ CreateRelistAgain(t)
        \/ AfterSaveCache(t)

\* sessions with the popup alone, on a server that starts with one group: the
\* threads are scheduled and the main loop runs its callbacks
NextPopup ==
    \/ \E t \in MainTasks, choice \in {"group", "subgroup", "project"}, name \in CreateNames,
          parent \in ParentChoices, sub \in SubgroupChoices, keep \in BOOLEAN :
            DoCreate(t, choice, name, parent, sub, keep)
    \/ CreateTaskSteps

SpecPopup ==
    /\ InitLoaded(InitialGroups(1), InitialProjects(1, 1))
    /\ [][NextPopup]_vars
    /\ WF_vars(CreateTaskSteps)

-----------------------------------------------------------------------------
(* The log: log() and the worker thread of _start_log_worker *)

MaxLogLines == 4        \* lines passed to log() in one run

LogTexts == {<<120>>, <<121>>}
Threads == {"main"} \cup Tasks

\* line = f"[{ts}] {text}": the lines of one second carry the same stamp
Stamp == <<91, 116, 115, 93, 32>>
LogLine(text) == Stamp \o text

\* self.log_queue.get(): the oldest line and the rest of the queue
QueueGetNewest(q) == [line |-> q[Len(q)], rest |-> SubSeq(q, 1, Len(q) - 1)]
QueueGet(q) == [line |-> Head(q), rest |-> Tail(q)]

\* self.log_area.insert('end', line + '\n')
AreaInsert(area, line) == Append(area, line \o <<10>>)

\* log(text), called by any thread
Log(thread, text) ==
    /\ Len(logged) < MaxLogLines
    /\ log_queue' = Append(log_queue, LogLine(text))
    /\ logged' = Append(logged, LogLine(text))
    /\ last' = Ev("log", thread, ROOT, 0, "-", FALSE, "none")
    /\ UNCHANGED <<srvGroups, srvProjects, client, user_info, token, all_groups,
                   last_parent_name, last_subgroup_name, tree, sel, focus, buttons,
                   current_project_id, tasks, log_area, worker, hp, disk, save_token_var>>

\* worker: line = self.log_queue.get(), which blocks while the queue is empty
WorkerGet ==
    /\ worker = NoLine
    /\ log_queue # <<>>
    /\ worker' = <<QueueGet(log_queue).line>>
    /\ log_queue' = QueueGet(log_queue).rest
    /\ UNCHANGED <<appVars, log_area, logged, hp, disk, save_token_var>>

\* worker: the line is never None (log() puts strings only), so it is inserted.
\* The four widget calls are taken to succeed, as they do while the main loop
\* runs; an exception in them would be swallowed by the except and drop the line.
WorkerInsert ==
    /\ worker # NoLine
    /\ log_area' = AreaInsert(log_area, worker[1])
    /\ worker' = NoLine
    /\ UNCHANGED <<appVars, log_queue, logged, hp, disk, save_token_var>>

NextLog ==
    \/ \E thread \in Threads, text \in LogTexts : Log(thread, text)
    \/ WorkerGet
    \/ WorkerInsert

\* the worker is a thread of its own in an endless loop: it is scheduled again and again
SpecLog == Init /\ [][NextLog]_vars /\ WF_vars(WorkerGet) /\ WF_vars(WorkerInsert)

-----------------------------------------------------------------------------
(* Requests per operation: the GitLabClient methods and the calls of the     *)
(* popup's create task, on a server that holds hp.n groups.                  *)

MaxServerGroups == 201  \* groups on the server: 0..MaxServerGroups

per_page == 100

SingleOps == {"test", "list_projects_in_group", "get_file_raw", "create_group",
              "create_project"}
CreateThenList == {"do_create.group", "do_create.subgroup"}
HttpOps == SingleOps \cup CreateThenList
           \cup {"upload_file", "list_groups", "on_login.task", "do_create.project"}

HttpFrame(op, n, exists, keep) ==
    [pc |-> "call", kind |-> "http", alone |-> TRUE, op |-> op, n |-> n,
     exists |-> exists, keep |-> keep, stage |-> "first", page |-> 1, res |-> 0,
     reqs |-> 0, failed |-> FALSE]

\* the number of groups on page `page` of GET /groups for a server with n groups
PageData(n, page) ==
    IF n - (page - 1) * per_page <= 0 THEN 0
    ELSE IF n - (page - 1) * per_page >= per_page THEN per_page
    ELSE n - (page - 1) * per_page

\* _paged_get leaves its loop after this page: it is empty or short
LastPageAlways(data) == TRUE
LastPage(data) == data = 0 \/ data < per_page

\* an operation is invoked
HttpInvoke(op, n, exists, keep) ==
    /\ hp.pc = "idle"
    /\ hp' = HttpFrame(op, n, exists, keep)
    /\ UNCHANGED <<appVars, logVars, disk, save_token_var>>

\* the methods that send one request and return its answer or raise
HttpSingle ==
    /\ hp.pc = "call" /\ hp.op \in SingleOps \cup {"upload_file", "do_create.project"}
    /\ IF hp.op = "upload_file" /\ ~hp.exists
       THEN hp' = [hp EXCEPT !.pc = "raised", !.failed = TRUE]
       ELSE \E ok \in BOOLEAN :
               hp' = [hp EXCEPT !.reqs = @ + 1, !.failed = ~ok,
                                !.pc = IF ok THEN "returned" ELSE "raised"]
    /\ UNCHANGED <<appVars, logVars, disk, save_token_var>>

\* do_create's task for a group or subgroup: the create request, which adds a group
HttpCreateThenList ==
    /\ hp.pc = "call" /\ hp.op \in CreateThenList
    /\ hp.stage = "first"
    /\ \E ok \in BOOLEAN :
          hp' = IF ok THEN [hp EXCEPT !.reqs = @ + 1, !.n = @ + 1, !.stage = "list"]
                ELSE [hp EXCEPT !.reqs = @ + 1, !.failed = TRUE, !.pc = "raised"]
    /\ UNCHANGED <<appVars, logVars, disk, save_token_var>>

\* on_login's task: client.test(), then populate_groups, whose task lists the groups
HttpLoginThenList ==
    /\ hp.pc = "call" /\ hp.op = "on_login.task"
    /\ hp.stage = "first"
    /\ \E ok \in BOOLEAN :
          hp' = IF ok THEN [hp EXCEPT !.reqs = @ + 1, !.stage = "list"]
                ELSE [hp EXCEPT !.reqs = @ + 1, !.failed = TRUE, !.pc = "raised"]
    /\ UNCHANGED <<appVars, logVars, disk, save_token_var>>

\* where a list_groups call goes when its _paged_get has returned
AfterList(f) ==
    IF f.op \notin CreateThenList \/ f.stage = "again" \/ ~f.keep
    THEN [f EXCEPT !.pc = "returned"]
    ELSE [f EXCEPT !.stage = "again", !.page = 1, !.res = 0]

\* one turn of the loop of _paged_get('/groups')
HttpPagedGet ==
    /\ hp.pc = "call"
    /\ hp.op = "list_groups" \/ hp.stage \in {"list", "again"}
    /\ \E ok \in BOOLEAN :
          LET data == PageData(hp.n, hp.page)
              f == [hp EXCEPT !.reqs = @ + 1]
          IN  hp' = IF ~ok
                    THEN (IF f.stage = "again"
                          THEN [f EXCEPT !.failed = TRUE, !.pc = "returned"]
                          ELSE [f EXCEPT !.failed = TRUE, !.pc = "raised"])
                    ELSE IF LastPage(data) THEN AfterList([f EXCEPT !.res = @ + data])
                    ELSE [f EXCEPT !.res = @ + data, !.page = @ + 1]
    /\ UNCHANGED <<appVars, logVars, disk, save_token_var>>

HttpDone ==
    /\ hp.pc \in {"returned", "raised"}
    /\ hp' = Idle
    /\ UNCHANGED <<appVars, logVars, disk, save_token_var>>

NextHttp ==
    \/ \E op \in HttpOps, n \in 0..MaxServerGroups, exists \in BOOLEAN, keep \in BOOLEAN :
          HttpInvoke(op, n, exists, keep)
    \/ HttpSingle
    \/ HttpCreateThenList
    \/ HttpLoginThenList
    \/ HttpPagedGet
    \/ HttpDone

\* the operations are invoked by a logged-in client
SpecHttp == InitCreate /\ [][NextHttp]_vars

-----------------------------------------------------------------------------
(* Claims *)

ChildTexts(tr, iid) == [i \in 1..Len(TreeChildren(tr, iid)) |-> tr.item[TreeChildren(tr, iid)[i]].text]

EntryNames(entries) == [i \in 1..Len(entries) |-> entries[i].name]

\* C1: after on_tree_open on a node of type 'repo', with a logged-in client, the
\* node's children are the entries the repository-tree endpoint returns for the
\* project and no placeholder child is left.
C1_RepoOpenLoadsTree ==
    (last.op = "on_tree_open" /\ TypeOf(tree, last.item) = "repo" /\ client # NONE)
    => /\ DummyChildren(tree, last.item) = <<>>
       /\ ChildTexts(tree, last.item) = EntryNames(RepositoryTree(TreeValues(tree, last.item)[2]))

\* C2: whenever the 'Download file' button is enabled, the selected tree node is a
\* file (blob) node.
C2_DownloadEnabledOnBlob ==
    buttons => (sel # ROOT /\ TypeOf(tree, sel) = "blob")

\* C3: no step that runs on the main thread sends an HTTP request.
C3_NoHttpOnMainThread ==
    last.http > 0 => last.thread # "main"

\* C4: every call of a mutating Treeview method is made by the main thread.
C4_TreeMutatedOnMainOnly ==
    last.mut => last.thread = "main"

RootsOf(groups) == {g \in Range(groups) : IsRoot(g)}

\* the root items are the parentless groups of `groups`, each once
RootsShow(groups) ==
    /\ Len(TreeChildren(tree, ROOT)) = Cardinality(RootsOf(groups))
    /\ Range(TreeChildren(tree, ROOT)) = {GroupIid(g.id) : g \in RootsOf(groups)}

\* C5: two populate_groups tasks that run at the same time and both get a
\* successful answer: no Treeview call of either raises, and once both have
\* finished the root items are the parentless groups of _all_groups.
C5_ConcurrentPopulate ==
    /\ ~(last.op = "populate.task" /\ last.mut /\ last.err # "none")
    /\ (\A t \in Tasks : tasks[t].kind = "populate" /\ tasks[t].pc = "done")
          => RootsShow(all_groups)

\* C7: a request that is answered with a non-success status ends in a log line and
\* an error message box.
C7_UniformErrorHandling ==
    last.resp = "fail" => last.err = "log+box"

\* the root items in case-insensitive name order
RootsInOrder ==
    \A i \in 1..Len(TreeChildren(tree, ROOT)) - 1 :
        ~StrLess(Lower(tree.item[TreeChildren(tree, ROOT)[i + 1]].text),
                 Lower(tree.item[TreeChildren(tree, ROOT)[i]].text))

\* every root item is a group of `groups` with its name, ('group', id) and one placeholder
RootItemsOf(groups) ==
    \A g \in RootsOf(groups) :
        /\ TreeExists(tree, GroupIid(g.id))
        /\ tree.item[GroupIid(g.id)] = Item(g.name, <<"group", g.id>>)
        /\ TreeChildren(tree, GroupIid(g.id)) = <<DummyOf(GroupIid(g.id))>>
        /\ tree.item[DummyOf(GroupIid(g.id))].values = <<>>
        /\ TreeChildren(tree, DummyOf(GroupIid(g.id))) = <<>>

\* C9: when a populate_groups task has completed and nothing else ran meanwhile,
\* _all_groups is the fetched list and the tree is exactly the fetched parentless
\* groups, in case-insensitive name order, each with iid group_<id>, values
\* ('group', id) and one placeholder child.
C9_PopulateResult ==
    \A t \in Tasks :
        (tasks[t].kind = "populate" /\ tasks[t].pc = "done" /\ tasks[t].alone)
        => /\ all_groups = tasks[t].groups
           /\ RootsShow(tasks[t].groups)
           /\ RootsInOrder
           /\ RootItemsOf(tasks[t].groups)
           /\ Cardinality(DOMAIN tree.kids) = 1 + 2 * Cardinality(RootsOf(tasks[t].groups))

\* a populate task completed undisturbed, replacing a tree that was not empty by
\* at least two roots
C9_Witness ==
    \E t \in Tasks :
        /\ tasks[t].kind = "populate" /\ tasks[t].pc = "done" /\ tasks[t].alone
        /\ tasks[t].children # <<>>
        /\ Cardinality(RootsOf(tasks[t].groups)) >= 2

ExpectedChildren(group_id) ==
    LET subgs == SortedByName(SubgroupsOf(all_groups, group_id))
        projects == SortedByName(ProjectsInGroup(group_id))
    IN  [i \in 1..Len(subgs) |-> SubgroupIid(subgs[i].id)]
        \o [i \in 1..Len(projects) |-> ProjectIid(projects[i].id)]

\* C10: after on_tree_open on a group node that got a successful projects response,
\* the node's children are the group's subgroups from _all_groups, sorted by name,
\* then the projects of the response, sorted by name, each once, and no placeholder.
\* Stated for the states in which every earlier task has finished.
C10_GroupOpenShowsAll ==
    (/\ last.op = "on_tree_open" /\ TypeOf(tree, last.item) = "group"
     /\ last.resp = "ok"
     /\ \A t \in Tasks : ~Running(t))
    => TreeChildren(tree, last.item) = ExpectedChildren(TreeValues(tree, last.item)[2])

Pages(n) == (n \div per_page) + 1

Delivered == [i \in 1..Len(log_area) |-> SubSeq(log_area[i], 1, Len(log_area[i]) - 1)]
InFlight == Delivered \o worker \o log_queue

NoPlaceholder == \A i \in DOMAIN tree.kids : ~IsDummy(i)

\* the group is displayed under the node of its parent group, or at the root
Displayed(g) ==
    IF IsRoot(g) THEN GroupIid(g.id) \in Range(TreeChildren(tree, ROOT))
    ELSE \E p \in {GroupIid(g.parent_id), SubgroupIid(g.parent_id)} :
            TreeExists(tree, p) /\ SubgroupIid(g.id) \in Range(TreeChildren(tree, p))

\* C11: every group of _all_groups can be reached by expanding nodes.  Once the
\* roots of _all_groups are shown and no placeholder is left, no expansion adds a
\* group node any more, so every group is displayed under its parent by then.
C11_AllGroupsBrowsable ==
    (/\ \A t \in Tasks : ~Running(t)
     /\ all_groups = srvGroups
     /\ RootsShow(all_groups)
     /\ NoPlaceholder)
    => \A g \in Range(all_groups) : Displayed(g)

\* C14: when on_search has found a match, its task ends with the tree node of the
\* first match selected and reports no error.
C14_SearchSelectsFirstMatch ==
    (last.op = "on_search.task" /\ last.item # ROOT)
    => (last.err = "none" /\ sel = last.item)

\* C15: a group or subgroup node is loaded at most once: when on_tree_open has
\* loaded it successfully, an on_tree_open on the same node that follows sends no
\* request and leaves the tree unchanged.
C15_LoadedAtMostOnce ==
    [][(/\ last.op = "on_tree_open" /\ last.resp = "ok" /\ last.err = "none"
        /\ TypeOf(tree, last.item) \in {"group", "subgroup"}
        /\ last'.op = "on_tree_open" /\ last'.item = last.item)
       => (last'.http = 0 /\ tree' = tree)]_vars

\* C16: whenever the Upload/Download buttons are enabled (here: with no task
\* running), the current selection is a project node and current_project_id is the
\* id of that project.
C16_ButtonsMeanProjectSelected ==
    (buttons /\ \A t \in Tasks : ~Running(t))
    => /\ sel # ROOT
       /\ TypeOf(tree, sel) = "project"
       /\ current_project_id = TreeValues(tree, sel)[2]

\* C12: after a save_cache that wrote the file, the _load_cache of the next start
\* restores _all_groups and the two last-used names exactly as they were saved,
\* and the tree shows the saved root groups, each with one placeholder child.
C12_CacheRoundTrip ==
    (last.op = "_load_cache" /\ disk.saved # NoFile)
    => LET saved == disk.saved[1]
       IN  /\ last.err = "none"
           /\ all_groups = saved.groups
           /\ last_parent_name = saved.last_parent
           /\ last_subgroup_name = saved.last_subgroup
           /\ RootsShow(saved.groups)
           /\ \A r \in Range(TreeChildren(tree, ROOT)) :
                 /\ TreeChildren(tree, r) = <<DummyOf(r)>>
                 /\ \E g \in Range(saved.groups) :
                       /\ IsRoot(g) /\ r = GroupIid(g.id)
                       /\ tree.item[r].text = g.name

C12_Witness ==
    /\ last.op = "_load_cache"
    /\ disk.saved # NoFile
    /\ \E g \in Range(all_groups) : ~IsRoot(g)
    /\ last_parent_name # NoName
    /\ last_subgroup_name # last_parent_name
    /\ Len(TreeChildren(tree, ROOT)) >= 2

\* C13: after a save_token(t) that returned True, load_token() returns exactly t;
\* after a delete_saved_token() that returned True, load_token() returns None.
C13_TokenRoundTrip ==
    /\ (last.op = "save_token" /\ last.err = "none") => LoadToken(disk) = <<last.item>>
    /\ (last.op = "delete_saved_token" /\ last.err = "none") => LoadToken(disk) = NoFile

\* the test of the login task has just succeeded
LoginSucceeded == last.op = "on_login.task" /\ last.err = "none"

\* the populate task has come to its end and the tree shows the roots it fetched
GroupsShown ==
    /\ tasks["t1"].kind = "populate" /\ tasks["t1"].pc = "done"
    /\ all_groups = tasks["t1"].groups
    /\ RootsShow(tasks["t1"].groups)

\* the populate task has reported that it could not load the groups
GroupLoadError == last.op = "populate.task" /\ last.err = "log+box"

\* C18: after a successful login, when the threads are scheduled and the user does
\* not log out, eventually the tree shows the root groups fetched with the new
\* client or a group-load error is reported; and the login task starts the fetch
\* only with client, user_info and token set.
C18_LoginLoadsGroups ==
    /\ LoginSucceeded ~> (GroupsShown \/ GroupLoadError \/ client = NONE)
    /\ [][(tasks["t1"].kind = "login" /\ tasks'["t1"].kind = "populate")
          => (client # NONE /\ user_info # NONE /\ token # NONE
              /\ client = tasks["t1"].token)]_vars

C18_Witness ==
    /\ GroupsShown
    /\ client # NONE
    /\ Len(TreeChildren(tree, ROOT)) >= 2

\* C20: a login whose test fails changes nothing: client, user_info, token, the
\* saved token, _all_groups and the tree stay as they were, no populate task is
\* started, and the token is not saved even with the 'Lưu Token' box checked.
C20_FailedLoginChangesNothing ==
    [][(tasks["t1"].kind = "login" /\ tasks["t1"].pc = "test" /\ last'.resp = "fail"
        /\ tasks'["t1"] # tasks["t1"])
       => (/\ UNCHANGED <<client, user_info, token, disk, all_groups, tree>>
           /\ tasks'["t1"].kind # "populate"
           /\ last'.err = "log+box")]_vars

C20_Witness ==
    /\ last.op = "on_login.task" /\ last.resp = "fail"
    /\ save_token_var
    /\ client # NONE
    /\ LoadToken(disk) = <<TokenText(client)>>
    /\ tree # EmptyTree

\* the group the parent combobox shows as selected: the root group of that name
SelectedParent(parent) ==
    SelectSeq(all_groups, LAMBDA g : IsRoot(g) /\ g.name = parent)

\* the namespace the two comboboxes stand for: the child of the selected parent
\* group that has the chosen subgroup's name, else the selected parent group
SelectedNamespace(parent, sub) ==
    LET pg == SelectedParent(parent)
        subs == IF pg = <<>> \/ sub = EmptyText THEN <<>>
                ELSE SelectSeq(all_groups, LAMBDA g : g.name = sub /\ g.parent_id = pg[1].id)
    IN  IF subs # <<>> THEN subs[1].id
        ELSE IF pg # <<>> THEN pg[1].id
        ELSE NoId

\* C17: a project created with the popup goes into the selected subgroup, looked
\* up by name among the children of the selected parent group, if one is chosen,
\* and into the selected parent group otherwise.
C17_ProjectNamespace ==
    \A t \in Tasks :
        (tasks[t].kind = "create" /\ tasks[t].choice = "project" /\ tasks[t].pc = "exists")
        => srvProjects[Len(srvProjects)].namespace
              = SelectedNamespace(tasks[t].parent, tasks[t].sub)

\* a creation with the popup has succeeded and its task is at work
Created == \E t \in Tasks : tasks[t].kind = "create"

\* C19: after a successful creation with the popup, whether the window is kept
\* open or not, save_cache is eventually run.
C19_CreateSavesCache == Created ~> (last.op = "save_cache")

====
